---- MODULE Spec2Model ----
(***************************************************************************)
(* discord-cleanup: the message cleaner bot (discord-message-cleaner.js).  *)
(*                                                                         *)
(* The model covers the two command handlers (interactionCreate for slash  *)
(* commands, messageCreate for prefix commands) and the two cleanup        *)
(* routines they call, cleanMessages and cleanUntilMessage.  Every await   *)
(* of the source is a step of its own.  The chat platform is the channel   *)
(* (the set of message ids it holds), the creation time of each message    *)
(* and a clock; every platform call is appended to the log `calls`.        *)
(***************************************************************************)
EXTENDS Integers, Sequences, FiniteSets, TLC

\* ------------------------------------------------------------------ bounds
\* Messages the channel may hold before the command arrives (ids 1..MaxMsgs).
MaxMsgs == 4
\* Page size of cleanUntilMessage's fetch, `limit: 100` in the source, scaled
\* down so that a small channel spans several pages.
PageLimit == 3

\* Messages in the channel when two commands run side by side.
ConcMsgs == 2

\* The longest answer typed at a prompt of the setup script, and the number
\* of prompts followed.
MaxAnswerLen == 3
MaxPrompts == 3

\* Messages that other users may post while a command is running.
MaxPosts == 2

\* --------------------------------------------------------- program constants
MinAmount == 1
MaxAmount == 100
DeleteDelay == 100
PageDelay == 1000
ReplyTimeout == 5000
FourteenDays == 14 * 24 * 60 * 60 * 1000

\* ------------------------------------------------------------- environment
\* The clock when the command arrives, and the creation times a message that
\* is already in the channel may have: before the 14-day cutoff and exactly
\* at it (both aged), recent now but aged after some pacing pauses, and
\* recent throughout.
StartTime == FourteenDays + 2000
Stamps == {1000, 2000, 3500, 9000}

Procs == {"a", "b"}
Users == {"alice", "mallory"}
NoId == 0
NoCount == -1

Digit == {"0", "1", "2", "3", "4", "5", "6", "7", "8", "9"}
DigitChar == <<"0", "1", "2", "3", "4", "5", "6", "7", "8", "9">>

\* The decimal string of a message id (a snowflake is sent as a string).
IdStr(n) == IF n < 10 THEN <<DigitChar[n + 1]>>
            ELSE <<DigitChar[(n \div 10) + 1], DigitChar[(n % 10) + 1]>>

\* args[0] of a prefix command, or the string option of a slash command:
\* the ids of the channel, an id that is nowhere, and malformed ones.
\* <<>> stands for a missing argument (undefined, null or the empty string).
Tokens == {IdStr(n) : n \in 0..MaxMsgs} \cup
          { <<>>, <<"0", "2">>, <<"2", "x">>, <<"x">>, <<"-", "1">>,
            <<"1", "0", "0">>, <<"1", "0", "1">> }
\* The integer option of /clean as the handler receives it.
SlashAmounts == {0, 1, 2, MaxAmount, MaxAmount + 1}

\* channel           ids of the messages the platform holds for the channel
\* createdTimestamp  msg.createdTimestamp of every message ever in it
\* now               Date.now()
\* nextId            the id the platform gives the next message sent
\* authorizedUsers   config.authorizedUsers
\* canManage         the bot holds Manage Messages in the guild
\* calls             the platform calls issued so far, oldest first
\* inv               per activation: the handler's and the routine's locals
\*                   and the await the activation is suspended at (pc)
VARIABLES channel, createdTimestamp, now, nextId, authorizedUsers, canManage,
          calls, inv, setup
vars == <<channel, createdTimestamp, now, nextId, authorizedUsers, canManage,
          calls, inv, setup>>

\* ------------------------------------------------------------ pure helpers
RECURSIVE SortDesc(_)
\* The ids of S, newest (largest) first: the order of a fetched Collection.
SortDesc(S) == IF S = {} THEN <<>>
               ELSE LET m == CHOOSE x \in S : \A y \in S : y <= x
                    IN <<m>> \o SortDesc(S \ {m})

Range(s) == {s[i] : i \in 1..Len(s)}
Take(s, n) == IF n >= Len(s) THEN s ELSE SubSeq(s, 1, n)

\* /^\d+$/.test(s)
IsDigits(s) == Len(s) > 0 /\ \A i \in 1..Len(s) : s[i] \in Digit

DigitVal(c) == CHOOSE n \in 0..9 : DigitChar[n + 1] = c

RECURSIVE DigitsValue(_, _)
DigitsValue(s, acc) == IF s = <<>> \/ Head(s) \notin Digit THEN acc
                       ELSE DigitsValue(Tail(s), 10 * acc + DigitVal(Head(s)))

\* parseInt(s): an optional sign, then the leading digits; NaN without one.
ParseInt(s) ==
  LET neg  == s # <<>> /\ Head(s) = "-"
      body == IF s # <<>> /\ Head(s) \in {"-", "+"} THEN Tail(s) ELSE s
  IN IF body = <<>> \/ Head(body) \notin Digit
     THEN [nan |-> TRUE, n |-> 0]
     ELSE [nan |-> FALSE,
           n |-> IF neg THEN 0 - DigitsValue(body, 0) ELSE DigitsValue(body, 0)]

\* Mutant: only a missing id is refused, the format is not looked at.
BadTargetOnlyMissing(s) == s = <<>>

\* !targetMessageId || !/^\d+$/.test(targetMessageId)
BadTarget(s) == s = <<>> \/ ~IsDigits(s)

\* isNaN(amount) || amount < 1 || amount > 100
BadAmount(a) == a.nan \/ a.n < MinAmount \/ a.n > MaxAmount

\* let config = { prefix: '!', authorizedUsers: [], ... }
DefaultConfig == [prefix |-> "!", authorizedUsers |-> {}]

\* An object without fields.
NoFields == [k \in {} |-> {}]

\* What may be found at configPath: no file, a file JSON.parse rejects, an
\* object without authorizedUsers, an object that lists alice.
ConfigFiles ==
  {[exists |-> FALSE, parses |-> FALSE, fileConfig |-> NoFields],
   [exists |-> TRUE, parses |-> FALSE, fileConfig |-> NoFields],
   [exists |-> TRUE, parses |-> TRUE, fileConfig |-> NoFields],
   [exists |-> TRUE, parses |-> TRUE,
    fileConfig |-> [authorizedUsers |-> {"alice"}]]}

\* Mutant: without a usable file everybody is authorized.
LoadConfigAllowOnFailure(file) ==
  IF file.exists /\ file.parses THEN file.fileConfig @@ DefaultConfig
  ELSE [DefaultConfig EXCEPT !.authorizedUsers = Users]

\* The try block at start-up: config = { ...config, ...fileConfig } when the
\* file exists and parses; the else branch and the catch leave the default.
LoadConfig(file) ==
  IF file.exists /\ file.parses THEN file.fileConfig @@ DefaultConfig
  ELSE DefaultConfig

\* Mutant: the list of authorized users is not consulted.
IsAuthorizedAnyone(u) == TRUE

\* config.authorizedUsers.includes(user.id)
IsAuthorized(u) == u \in authorizedUsers

\* ---------------------------------------------------------------- platform
\* Mutant: the limit is ignored, a fetch returns all there is.
FetchPageUnlimited(ch, limit, before) ==
  SortDesc({m \in ch : before = NoId \/ m < before})

\* Mutant: the cursor is ignored, every fetch returns the newest messages.
FetchPageNoCursor(ch, limit, before) == Take(SortDesc(ch), limit)

\* channel.messages.fetch({limit, before}): the newest `limit` messages of
\* the channel, those older than `before` when a cursor is given.
FetchPage(ch, limit, before) ==
  Take(SortDesc({m \in ch : before = NoId \/ m < before}), limit)

\* The platform accepts a page limit of 1..100 only.
LimitAccepted(limit) == limit >= MinAmount /\ limit <= MaxAmount

\* An entry of the log: the call, the clock and the id the platform would
\* give the next message at the time the call is made.
Call(p, op, by, ids, ok, limit, before) ==
  [inv |-> p, op |-> op, by |-> by, ids |-> ids, ok |-> ok,
   limit |-> limit, before |-> before, at |-> now, next |-> nextId]

\* ------------------------------------------------------------------ frames
\* The setup script before setupBotToken is entered: let token = ''.
SetupIdle ==
  [pc |-> "idle", token |-> <<>>, prompts |-> 0, complaints |-> 0,
   env |-> <<>>, written |-> FALSE]

IdleFrame ==
  [pc |-> "idle", path |-> "none", user |-> "none", command |-> "none",
   arg |-> <<>>, cmdMsg |-> NoId, amount |-> 0, targetMessageId |-> <<>>,
   messages |-> <<>>, twoWeeksAgo |-> 0,
   branch |-> "none", recent |-> {}, oldQueue |-> <<>>,
   deletedCount |-> 0, targetFound |-> FALSE, lastMessageId |-> NoId,
   replies |-> <<>>, responses |-> <<>>, sent |-> NoId, escaped |-> FALSE]

TypeOK ==
  /\ setup.pc \in {"idle", "ask", "done"}
  /\ setup.written \in BOOLEAN
  /\ channel \subseteq DOMAIN createdTimestamp
  /\ DOMAIN createdTimestamp \subseteq 1..(nextId - 1)
  /\ \A a, b \in DOMAIN createdTimestamp :
       a < b => createdTimestamp[a] <= createdTimestamp[b]
  /\ \A m \in DOMAIN createdTimestamp : createdTimestamp[m] <= now
  /\ now >= StartTime
  /\ authorizedUsers \subseteq Users
  /\ canManage \in BOOLEAN
  /\ \A i \in 1..Len(calls) :
       /\ calls[i].inv \in Procs
       /\ calls[i].op \in {"fetch", "bulkDelete", "delete"}
       /\ calls[i].by \in {"handler", "engine", "timer"}
       /\ calls[i].ids \subseteq DOMAIN createdTimestamp
       /\ calls[i].ok \in BOOLEAN
  /\ \A p \in Procs :
       /\ inv[p].pc \in {"idle", "deferReply", "cmdDelete", "cleanFetch",
                         "untilFetch", "bulk", "old", "pause", "pagePause",
                         "respond", "catch", "timer", "done"}
       /\ inv[p].path \in {"none", "slash", "prefix"}
       /\ inv[p].branch \in {"none", "clean", "found", "page"}
       /\ inv[p].pc \in {"bulk", "old", "pause"} =>
            /\ inv[p].recent \subseteq Range(inv[p].messages)
            /\ Range(inv[p].oldQueue) \subseteq Range(inv[p].messages)
       /\ inv[p].deletedCount \in Nat
       /\ inv[p].targetFound \in BOOLEAN
       /\ inv[p].lastMessageId \in {NoId} \cup DOMAIN createdTimestamp
       /\ Len(inv[p].responses) <= 2

Init ==
  /\ channel \in SUBSET (1..MaxMsgs)
  /\ createdTimestamp \in
       {f \in [channel -> Stamps] :
          \A a, b \in channel : a < b => f[a] <= f[b]}
  /\ now = StartTime
  /\ nextId = MaxMsgs + 1
  /\ authorizedUsers \in {LoadConfig(c).authorizedUsers : c \in ConfigFiles}
  /\ canManage \in BOOLEAN
  /\ calls = <<>>
  /\ inv = [p \in Procs |-> IdleFrame]
  /\ setup = SetupIdle

\* ---------------------------------------------------------------- dispatch
SlashRequests ==
  {[command |-> "clean", amount |-> a, arg |-> <<>>] : a \in SlashAmounts} \cup
  {[command |-> "cleanuntil", amount |-> 0, arg |-> t] : t \in Tokens} \cup
  {[command |-> c, amount |-> 0, arg |-> <<>>] : c \in {"help", "version"}}

PrefixRequests ==
  {[command |-> c, arg |-> t] : c \in {"clean", "cleanuntil"}, t \in Tokens} \cup
  {[command |-> c, arg |-> <<>>] : c \in {"help", "version", "other"}}

Reply(f, text) == [f EXCEPT !.pc = "done", !.replies = Append(@, text)]

\* client.on('interactionCreate'), up to its first await.
InteractionFrame(u, isCommand, r) ==
  LET f == [IdleFrame EXCEPT !.path = "slash", !.user = u,
                             !.command = r.command, !.arg = r.arg]
  IN IF ~isCommand
       THEN [f EXCEPT !.pc = "done", !.command = "none", !.arg = <<>>]
     ELSE IF ~IsAuthorized(u) THEN Reply(f, "unauthorized")
     ELSE IF ~canManage THEN Reply(f, "noPermission")
     ELSE IF r.command = "clean"
       THEN [f EXCEPT !.pc = "deferReply", !.amount = r.amount]
     ELSE IF r.command = "cleanuntil"
       THEN IF BadTarget(r.arg) THEN Reply(f, "invalidId")
            ELSE [f EXCEPT !.pc = "deferReply", !.targetMessageId = r.arg]
     ELSE Reply(f, r.command)

InteractionCreate(p) ==
  /\ inv[p].pc = "idle"
  /\ \E u \in Users, isCommand \in BOOLEAN, r \in SlashRequests :
       inv' = [inv EXCEPT ![p] = InteractionFrame(u, isCommand, r)]
  /\ UNCHANGED <<channel, createdTimestamp, now, nextId, authorizedUsers,
                 canManage, calls,
                 setup>>

\* The first pc of the routine a command runs.
EngineEntry(f) == IF f.command = "clean" THEN "cleanFetch" ELSE "untilFetch"

\* await interaction.deferReply(): a rejection leaves the handler at once.
DeferReply(p) ==
  /\ inv[p].pc = "deferReply"
  /\ \E ok \in BOOLEAN :
       inv' = [inv EXCEPT ![p] =
                 IF ok THEN [@ EXCEPT !.pc = EngineEntry(inv[p])]
                 ELSE [@ EXCEPT !.pc = "done", !.escaped = TRUE]]
  /\ UNCHANGED <<channel, createdTimestamp, now, nextId, authorizedUsers,
                 canManage, calls,
                 setup>>

\* client.on('messageCreate'), up to its first await.  posts is the number of
\* messages the handler itself sends to the channel in this step.
MessageFrame(u, bot, prefixed, r) ==
  LET f == [IdleFrame EXCEPT !.path = "prefix", !.user = u, !.cmdMsg = nextId,
                             !.command = r.command, !.arg = r.arg]
  IN IF bot \/ ~prefixed
       THEN [f EXCEPT !.pc = "done", !.command = "none", !.arg = <<>>]
     ELSE IF ~IsAuthorized(u) THEN Reply(f, "unauthorized")
     ELSE IF ~canManage THEN Reply(f, "noPermission")
     ELSE IF r.command = "clean"
       THEN IF BadAmount(ParseInt(r.arg)) THEN Reply(f, "invalidAmount")
            ELSE [f EXCEPT !.pc = "cmdDelete", !.amount = ParseInt(r.arg).n]
     ELSE IF r.command = "cleanuntil"
       THEN IF BadTarget(r.arg) THEN Reply(f, "invalidId")
            ELSE [f EXCEPT !.pc = "cmdDelete", !.targetMessageId = r.arg]
     ELSE IF r.command \in {"help", "version"} THEN Reply(f, r.command)
     ELSE [f EXCEPT !.pc = "done"]

MessageCreate(p) ==
  /\ inv[p].pc = "idle"
  /\ \E u \in Users, bot \in BOOLEAN, prefixed \in BOOLEAN, r \in PrefixRequests :
       LET f == MessageFrame(u, bot, prefixed, r)
           posts == 1 + Len(f.replies)
       IN /\ inv' = [inv EXCEPT ![p] = f]
          /\ channel' = channel \cup (nextId..(nextId + posts - 1))
          /\ createdTimestamp' =
               createdTimestamp @@ [m \in nextId..(nextId + posts - 1) |-> now]
          /\ nextId' = nextId + posts
  /\ UNCHANGED <<now, authorizedUsers, canManage, calls,
                 setup>>

\* Mutant: the routine is called whether or not the command message could be
\* deleted.
AfterCmdDeleteAlways(f, ok) == EngineEntry(f)

\* Where the prefix handler goes after await message.delete(): a rejection
\* jumps over the call of the routine to the handler's catch.
AfterCmdDelete(f, ok) == IF ok THEN EngineEntry(f) ELSE "done"

\* await message.delete(): the command message goes first; a failure is
\* caught by the handler's own try/catch and the routine is never called.
CmdDelete(p) ==
  /\ inv[p].pc = "cmdDelete"
  /\ \E ok \in BOOLEAN :
       /\ calls' = Append(calls, Call(p, "delete", "handler", {inv[p].cmdMsg},
                                      ok, 0, NoId))
       /\ channel' = IF ok THEN channel \ {inv[p].cmdMsg} ELSE channel
       /\ inv' = [inv EXCEPT ![p].pc = AfterCmdDelete(inv[p], ok)]
  /\ UNCHANGED <<createdTimestamp, now, nextId, authorizedUsers, canManage,
                 setup>>

\* ----------------------------------------------------------- cleanMessages
\* Mutant: the recent bucket takes the message at the cutoff as well.
RecentMessagesInclusive(page, twoWeeksAgo) ==
  {m \in Range(page) : createdTimestamp[m] >= twoWeeksAgo}

\* fetchedMessages.filter(msg => msg.createdTimestamp > twoWeeksAgo)
RecentMessages(page, twoWeeksAgo) ==
  {m \in Range(page) : createdTimestamp[m] > twoWeeksAgo}
\* Mutant: the aged bucket leaves out the message exactly at the cutoff.
OldMessagesStrict(page, twoWeeksAgo) ==
  SelectSeq(page, LAMBDA m : createdTimestamp[m] < twoWeeksAgo)

\* fetchedMessages.filter(msg => msg.createdTimestamp <= twoWeeksAgo), in the
\* order oldMessages.values() yields them.
OldMessages(page, twoWeeksAgo) ==
  SelectSeq(page, LAMBDA m : createdTimestamp[m] <= twoWeeksAgo)

\* Mutant: the next page is fetched without the pause between pages.
AfterLoopNoPagePause(branch) == IF branch = "page" THEN "untilFetch" ELSE "respond"

\* Where a routine goes when the loop over the aged messages is over.
AfterLoop(branch) == IF branch = "page" THEN "pagePause" ELSE "respond"

\* Mutant: the bulk call is made whatever the size of the recent bucket.
AfterPartitionAlwaysBulk(branch, recent, old) == "bulk"

\* Mutant: the loop over the aged messages is started at once, the bulk call
\* is left for later.
AfterPartitionOldFirst(branch, recent, old) ==
  IF old # <<>> THEN "old"
  ELSE IF recent # {} THEN "bulk"
  ELSE AfterLoop(branch)

\* The first step after a partition: the bulk call only for a non-empty set.
AfterPartition(branch, recent, old) ==
  IF recent # {} THEN "bulk"
  ELSE IF old # <<>> THEN "old"
  ELSE AfterLoop(branch)

\* cleanMessages: the fetch and the partition of what it returned.
CleanFetch(p) ==
  /\ inv[p].pc = "cleanFetch"
  /\ LET limit == inv[p].amount
         page == FetchPage(channel, limit, NoId)
         twoWeeksAgo == now - FourteenDays
         recent == RecentMessages(page, twoWeeksAgo)
         old == OldMessages(page, twoWeeksAgo)
     IN \E ok \in {b \in BOOLEAN : b => LimitAccepted(limit)} :
          IF ok
          THEN /\ calls' = Append(calls, Call(p, "fetch", "engine", Range(page),
                                              TRUE, limit, NoId))
               /\ inv' = [inv EXCEPT ![p].branch = "clean",
                                     ![p].messages = page,
                                     ![p].twoWeeksAgo = twoWeeksAgo,
                                     ![p].recent = recent,
                                     ![p].oldQueue = old,
                                     ![p].deletedCount = 0,
                                     ![p].pc = AfterPartition("clean", recent, old)]
          ELSE /\ calls' = Append(calls, Call(p, "fetch", "engine", {},
                                              FALSE, limit, NoId))
               /\ inv' = [inv EXCEPT ![p].pc = "catch"]
  /\ UNCHANGED <<channel, createdTimestamp, now, nextId, authorizedUsers, canManage,
                 setup>>

\* Mutant: the aged messages are forgotten once the bulk call has returned.
AfterBulkSkipsOld(f, ok) ==
  IF ok THEN [f EXCEPT !.deletedCount = @ + Cardinality(f.recent),
                       !.oldQueue = <<>>, !.pc = AfterLoop(f.branch)]
  ELSE [f EXCEPT !.pc = "catch"]

\* Mutant: only the messages the bulk-delete call finds in the channel are
\* counted, as if the routine knew what another invocation had removed.
AfterBulkCountsPresent(f, ok) ==
  IF ok THEN [f EXCEPT !.deletedCount = @ + Cardinality(f.recent \cap channel),
                       !.pc = IF f.oldQueue # <<>> THEN "old"
                              ELSE AfterLoop(f.branch)]
  ELSE [f EXCEPT !.pc = "catch"]

\* Mutant: a rejected bulk-delete call is swallowed like a rejected individual
\* delete, the routine goes on with the aged messages.
AfterBulkIgnoresFailure(f, ok) ==
  [f EXCEPT !.deletedCount = IF ok THEN @ + Cardinality(f.recent) ELSE @,
            !.pc = IF f.oldQueue # <<>> THEN "old" ELSE AfterLoop(f.branch)]

\* The frame after `await channel.bulkDelete(recent, true)`: the whole set
\* is counted when the call returns; a rejection leaves the try block.
AfterBulk(f, ok) ==
  IF ok THEN [f EXCEPT !.deletedCount = @ + Cardinality(f.recent),
                       !.pc = IF f.oldQueue # <<>> THEN "old"
                              ELSE AfterLoop(f.branch)]
  ELSE [f EXCEPT !.pc = "catch"]

\* await channel.bulkDelete(recent, true); deletedCount += recent.size
BulkDelete(p) ==
  /\ inv[p].pc = "bulk"
  /\ \E ok \in BOOLEAN :
       /\ calls' = Append(calls, Call(p, "bulkDelete", "engine", inv[p].recent,
                                      ok, 0, NoId))
       /\ channel' = IF ok THEN channel \ inv[p].recent ELSE channel
       /\ inv' = [inv EXCEPT ![p] = AfterBulk(@, ok)]
  /\ UNCHANGED <<createdTimestamp, now, nextId, authorizedUsers, canManage,
                 setup>>

\* Mutant: the message is counted before the delete call is awaited, so a
\* failed delete is counted as well.
AfterDeleteCountsFailure(f, ok) ==
  IF ok THEN [f EXCEPT !.deletedCount = @ + 1, !.oldQueue = Tail(@),
                       !.pc = "pause"]
  ELSE [f EXCEPT !.deletedCount = @ + 1, !.oldQueue = Tail(@),
                 !.pc = IF Tail(f.oldQueue) # <<>> THEN "old"
                        ELSE AfterLoop(f.branch)]

\* Mutant: a failed delete is tried again.
AfterDeleteRetries(f, ok) ==
  IF ok THEN [f EXCEPT !.deletedCount = @ + 1, !.oldQueue = Tail(@),
                       !.pc = "pause"]
  ELSE f

\* Mutant: a failed delete leaves the loop and the try block.
AfterDeleteAborts(f, ok) ==
  IF ok THEN [f EXCEPT !.deletedCount = @ + 1, !.oldQueue = Tail(@),
                       !.pc = "pause"]
  ELSE [f EXCEPT !.pc = "catch"]

\* The frame after `await msg.delete()` inside the inner try: a deleted
\* message is counted and the pacing pause follows; a rejection is logged by
\* the inner catch and the loop goes on with the next message.
AfterDelete(f, ok) ==
  IF ok THEN [f EXCEPT !.deletedCount = @ + 1, !.oldQueue = Tail(@),
                       !.pc = "pause"]
  ELSE [f EXCEPT !.oldQueue = Tail(@),
                 !.pc = IF Tail(f.oldQueue) # <<>> THEN "old"
                        ELSE AfterLoop(f.branch)]

\* One turn of the loop over the aged messages: await msg.delete().  The
\* platform refuses a message that is no longer there; a failure is caught
\* inside the loop, which goes on with the next message.
DeleteOld(p) ==
  /\ inv[p].pc = "old"
  /\ LET m == Head(inv[p].oldQueue)
     IN \E ok \in {b \in BOOLEAN : b => m \in channel} :
          /\ calls' = Append(calls, Call(p, "delete", "engine", {m}, ok, 0, NoId))
          /\ channel' = IF ok THEN channel \ {m} ELSE channel
          /\ inv' = [inv EXCEPT ![p] = AfterDelete(@, ok)]
  /\ UNCHANGED <<createdTimestamp, now, nextId, authorizedUsers, canManage,
                 setup>>

\* await new Promise(resolve => setTimeout(resolve, 100))
Pause(p) ==
  /\ inv[p].pc = "pause"
  /\ now' = now + DeleteDelay
  /\ inv' = [inv EXCEPT ![p].pc = IF inv[p].oldQueue # <<>> THEN "old"
                                  ELSE AfterLoop(inv[p].branch)]
  /\ UNCHANGED <<channel, createdTimestamp, nextId, authorizedUsers, canManage, calls,
                 setup>>

\* ------------------------------------------------------- cleanUntilMessage
\* toDelete.filter(msg => msg.createdTimestamp > twoWeeksAgo)
RecentToDelete(toDelete, twoWeeksAgo) ==
  {m \in Range(toDelete) : createdTimestamp[m] > twoWeeksAgo}
\* Mutant: this copy leaves out the message exactly at the cutoff.
OldToDeleteStrict(toDelete, twoWeeksAgo) ==
  SelectSeq(toDelete, LAMBDA m : createdTimestamp[m] < twoWeeksAgo)

\* toDelete.filter(msg => msg.createdTimestamp <= twoWeeksAgo)
OldToDelete(toDelete, twoWeeksAgo) ==
  SelectSeq(toDelete, LAMBDA m : createdTimestamp[m] <= twoWeeksAgo)

\* messages.has(targetMessageId): the keys of the page are id strings.
HasTarget(page, target) == \E i \in 1..Len(page) : IdStr(page[i]) = target
\* messages.get(targetMessageId)
GetTarget(page, target) == CHOOSE m \in Range(page) : IdStr(m) = target

\* Mutant: everything of the page but the target itself is deleted.
ToDeleteAllButTarget(page, target) ==
  SelectSeq(page, LAMBDA m : IdStr(m) # target)

\* messages.filter(msg => msg.id !== targetMessageId &&
\*   msg.createdTimestamp > messages.get(targetMessageId).createdTimestamp)
ToDelete(page, target) ==
  SelectSeq(page, LAMBDA m :
    /\ IdStr(m) # target
    /\ createdTimestamp[m] > createdTimestamp[GetTarget(page, target)])

\* Mutant: the cursor is taken from the newest message of the page.
FirstId(page) == page[1]

\* messages.last().id: the id of the oldest message of the page.
LastId(page) == page[Len(page)]

\* The frame after a page has come back: the body of the while loop from the
\* size test down to the first await of that iteration.
PageFrame(f, page) ==
  LET twoWeeksAgo == now - FourteenDays
      last == LastId(page)
      toDelete == ToDelete(page, f.targetMessageId)
      g == [f EXCEPT !.messages = page]
  IN IF page = <<>> THEN [g EXCEPT !.pc = "respond"]
     ELSE IF HasTarget(page, f.targetMessageId)
       THEN IF toDelete # <<>>
            THEN [g EXCEPT
                   !.lastMessageId = last, !.targetFound = TRUE,
                   !.branch = "found", !.twoWeeksAgo = twoWeeksAgo,
                   !.recent = RecentToDelete(toDelete, twoWeeksAgo),
                   !.oldQueue = OldToDelete(toDelete, twoWeeksAgo),
                   !.pc = AfterPartition("found",
                            RecentToDelete(toDelete, twoWeeksAgo),
                            OldToDelete(toDelete, twoWeeksAgo))]
            ELSE [g EXCEPT !.lastMessageId = last, !.targetFound = TRUE,
                           !.branch = "found", !.recent = {},
                           !.oldQueue = <<>>, !.pc = "respond"]
     ELSE [g EXCEPT
            !.lastMessageId = last, !.branch = "page",
            !.twoWeeksAgo = twoWeeksAgo,
            !.recent = RecentMessages(page, twoWeeksAgo),
            !.oldQueue = OldMessages(page, twoWeeksAgo),
            !.pc = AfterPartition("page", RecentMessages(page, twoWeeksAgo),
                                  OldMessages(page, twoWeeksAgo))]

\* One turn of `while (!targetFound)`: the fetch before lastMessageId.
UntilFetch(p) ==
  /\ inv[p].pc = "untilFetch"
  /\ LET before == inv[p].lastMessageId
         page == FetchPage(channel, PageLimit, before)
     IN \E ok \in BOOLEAN :
          IF ok
          THEN /\ calls' = Append(calls, Call(p, "fetch", "engine", Range(page),
                                              TRUE, PageLimit, before))
               /\ inv' = [inv EXCEPT ![p] = PageFrame(@, page)]
          ELSE /\ calls' = Append(calls, Call(p, "fetch", "engine", {},
                                              FALSE, PageLimit, before))
               /\ inv' = [inv EXCEPT ![p].pc = "catch"]
  /\ UNCHANGED <<channel, createdTimestamp, now, nextId, authorizedUsers, canManage,
                 setup>>

\* await new Promise(resolve => setTimeout(resolve, 1000)), then the loop test.
PagePause(p) ==
  /\ inv[p].pc = "pagePause"
  /\ now' = now + PageDelay
  /\ inv' = [inv EXCEPT ![p].pc = "untilFetch"]
  /\ UNCHANGED <<channel, createdTimestamp, nextId, authorizedUsers, canManage, calls,
                 setup>>

\* ------------------------------------------ the three copies, run to the end
\* What one copy of the partition-and-delete code does with a candidate list
\* c when the cutoff is twoWeeksAgo, the bulk call is answered bulkOk and the
\* individual deletes of the messages in failed are rejected: the calls and
\* pauses in order, the amount added to deletedCount, and whether the copy
\* was left by an exception.
Event(op, ids, ok) == [op |-> op, ids |-> ids, ok |-> ok]
PauseEvent == Event("pause", {}, TRUE)

\* cleanMessages: for (const msg of oldMessages.values()) { try { await
\* msg.delete(); deletedCount++; await pause } catch {} }
RECURSIVE CleanLoop(_, _)
CleanLoop(oldMessages, failed) ==
  IF oldMessages = <<>> THEN [events |-> <<>>, added |-> 0]
  ELSE LET msg == Head(oldMessages)
           rest == CleanLoop(Tail(oldMessages), failed)
       IN IF msg \in failed
            THEN [events |-> <<Event("delete", {msg}, FALSE)>> \o rest.events,
                  added |-> rest.added]
          ELSE [events |-> <<Event("delete", {msg}, TRUE), PauseEvent>>
                             \o rest.events,
                added |-> 1 + rest.added]

\* cleanMessages, from the computation of twoWeeksAgo to the end of the loop.
CleanCopy(c, twoWeeksAgo, bulkOk, failed) ==
  LET recentMessages == RecentMessages(c, twoWeeksAgo)
      oldMessages == OldMessages(c, twoWeeksAgo)
      loop == CleanLoop(oldMessages, failed)
  IN IF recentMessages # {}
       THEN IF bulkOk
              THEN [events |-> <<Event("bulkDelete", recentMessages, TRUE)>>
                                 \o loop.events,
                    added |-> Cardinality(recentMessages) + loop.added,
                    thrown |-> FALSE]
            ELSE [events |-> <<Event("bulkDelete", recentMessages, FALSE)>>,
                  added |-> 0, thrown |-> TRUE]
     ELSE [events |-> loop.events, added |-> loop.added, thrown |-> FALSE]

\* Target-found branch: for (const msg of oldToDelete.values()) { ... }
RECURSIVE FoundLoop(_, _)
FoundLoop(oldToDelete, failed) ==
  IF oldToDelete = <<>> THEN [events |-> <<>>, added |-> 0]
  ELSE LET msg == Head(oldToDelete)
           rest == FoundLoop(Tail(oldToDelete), failed)
       IN IF msg \in failed
            THEN [events |-> <<Event("delete", {msg}, FALSE)>> \o rest.events,
                  added |-> rest.added]
          ELSE [events |-> <<Event("delete", {msg}, TRUE), PauseEvent>>
                             \o rest.events,
                added |-> 1 + rest.added]

\* Target-found branch, from `if (toDelete.size > 0)` to the end of the loop.
FoundCopy(toDelete, twoWeeksAgo, bulkOk, failed) ==
  IF toDelete # <<>>
    THEN LET recentToDelete == RecentToDelete(toDelete, twoWeeksAgo)
             oldToDelete == OldToDelete(toDelete, twoWeeksAgo)
             loop == FoundLoop(oldToDelete, failed)
         IN IF recentToDelete # {}
              THEN IF bulkOk
                     THEN [events |->
                             <<Event("bulkDelete", recentToDelete, TRUE)>>
                               \o loop.events,
                           added |-> Cardinality(recentToDelete) + loop.added,
                           thrown |-> FALSE]
                   ELSE [events |->
                           <<Event("bulkDelete", recentToDelete, FALSE)>>,
                         added |-> 0, thrown |-> TRUE]
            ELSE [events |-> loop.events, added |-> loop.added,
                  thrown |-> FALSE]
  ELSE [events |-> <<>>, added |-> 0, thrown |-> FALSE]

\* Target-not-in-page branch: for (const msg of oldMessages.values()) { ... }
RECURSIVE PageLoop(_, _)
PageLoop(oldMessages, failed) ==
  IF oldMessages = <<>> THEN [events |-> <<>>, added |-> 0]
  ELSE LET msg == Head(oldMessages)
           rest == PageLoop(Tail(oldMessages), failed)
       IN IF msg \in failed
            THEN [events |-> <<Event("delete", {msg}, FALSE)>> \o rest.events,
                  added |-> rest.added]
          ELSE [events |-> <<Event("delete", {msg}, TRUE), PauseEvent>>
                             \o rest.events,
                added |-> 1 + rest.added]

\* Target-not-in-page branch, from the computation of twoWeeksAgo to the end
\* of the loop; the pause between pages comes after it.
PageCopy(messages, twoWeeksAgo, bulkOk, failed) ==
  LET recentMessages == RecentMessages(messages, twoWeeksAgo)
      oldMessages == OldMessages(messages, twoWeeksAgo)
      loop == PageLoop(oldMessages, failed)
  IN IF recentMessages # {}
       THEN IF bulkOk
              THEN [events |-> <<Event("bulkDelete", recentMessages, TRUE)>>
                                 \o loop.events,
                    added |-> Cardinality(recentMessages) + loop.added,
                    thrown |-> FALSE]
            ELSE [events |-> <<Event("bulkDelete", recentMessages, FALSE)>>,
                  added |-> 0, thrown |-> TRUE]
     ELSE [events |-> loop.events, added |-> loop.added, thrown |-> FALSE]

\* ---------------------------------------------------------------- response
\* The text a routine hands to its responseCallback on completion.
CompletionText(f) ==
  IF f.command = "clean" THEN [kind |-> "success", count |-> f.deletedCount]
  ELSE IF f.targetFound THEN [kind |-> "successUntil", count |-> f.deletedCount]
  ELSE [kind |-> "notFound", count |-> NoCount]
ErrorText == [kind |-> "error", count |-> NoCount]

\* await responseCallback(text).  The slash callback is editReply, whose
\* rejection reaches the routine; the prefix callback sends a message to the
\* channel inside its own try/catch and never rejects.  thrown is the pc the
\* routine goes to when the callback rejects.
Deliver(p, text, thrown) ==
  \E ok \in BOOLEAN :
    LET entry == [kind |-> text.kind, count |-> text.count, ok |-> ok]
    IN IF inv[p].path = "slash"
       THEN /\ inv' = [inv EXCEPT
                 ![p].responses = Append(@, entry),
                 ![p].escaped = ~ok /\ thrown = "done",
                 ![p].pc = IF ok THEN "done" ELSE thrown]
            /\ UNCHANGED <<channel, createdTimestamp, nextId>>
       ELSE IF ok
       THEN /\ inv' = [inv EXCEPT ![p].responses = Append(@, entry),
                                  ![p].sent = nextId, ![p].pc = "timer"]
            /\ channel' = channel \cup {nextId}
            /\ createdTimestamp' = createdTimestamp @@ (nextId :> now)
            /\ nextId' = nextId + 1
       ELSE /\ inv' = [inv EXCEPT ![p].responses = Append(@, entry),
                                  ![p].pc = "done"]
            /\ UNCHANGED <<channel, createdTimestamp, nextId>>

\* The last statement of the try block of either routine.
Respond(p) ==
  /\ inv[p].pc = "respond"
  /\ Deliver(p, CompletionText(inv[p]), "catch")
  /\ UNCHANGED <<now, authorizedUsers, canManage, calls,
                 setup>>

\* The catch block of either routine.
Catch(p) ==
  /\ inv[p].pc = "catch"
  /\ Deliver(p, ErrorText, "done")
  /\ UNCHANGED <<now, authorizedUsers, canManage, calls,
                 setup>>

\* setTimeout(() => reply.delete().catch(() => {}), 5000): the confirmation
\* the prefix path sent is removed again; a failure is ignored.
ReplyTimer(p) ==
  /\ inv[p].pc = "timer"
  /\ now' = now + ReplyTimeout
  /\ \E ok \in {b \in BOOLEAN : b => inv[p].sent \in channel} :
       /\ calls' = Append(calls, Call(p, "delete", "timer", {inv[p].sent},
                                      ok, 0, NoId))
       /\ channel' = IF ok THEN channel \ {inv[p].sent} ELSE channel
  /\ inv' = [inv EXCEPT ![p].pc = "done"]
  /\ UNCHANGED <<createdTimestamp, nextId, authorizedUsers, canManage,
                 setup>>

\* ----------------------------------------------------------- specification
\* One command at a time: the invocation "a" alone.
Single == {"a"}

Step(p) ==
  \/ InteractionCreate(p)
  \/ DeferReply(p)
  \/ MessageCreate(p)
  \/ CmdDelete(p)
  \/ CleanFetch(p)
  \/ UntilFetch(p)
  \/ BulkDelete(p)
  \/ DeleteOld(p)
  \/ Pause(p)
  \/ PagePause(p)
  \/ Respond(p)
  \/ Catch(p)
  \/ ReplyTimer(p)

Next == \E p \in Single : Step(p)

Spec == Init /\ [][Next]_vars

\* ------------------------------------------------- two commands side by side
\* Nothing in the handlers or the routines keeps a second command from being
\* taken up while the first is suspended at an await: every await of "a" may
\* be followed by a step of "b" and the other way round.  The scenario: an
\* authorized user, the bot holding the permission, a channel of ConcMsgs
\* messages (aged or recent), "a" a /cleanuntil whose target is the oldest
\* message or nowhere, "b" a `!clean 2`.
ConcStamps == {1000, 9000}

ConcInit ==
  /\ channel = 1..ConcMsgs
  /\ createdTimestamp \in
       {f \in [channel -> ConcStamps] :
          \A a, b \in channel : a < b => f[a] <= f[b]}
  /\ now = StartTime
  /\ nextId = MaxMsgs + 1
  /\ authorizedUsers = {"alice"}
  /\ canManage = TRUE
  /\ calls = <<>>
  /\ inv = [p \in Procs |-> IdleFrame]
  /\ setup = SetupIdle

InScenario(p, f) ==
  /\ f.user = "alice"
  /\ IF p = "a"
     THEN /\ f.path = "slash" /\ f.command = "cleanuntil"
          /\ f.arg \in {IdStr(0), IdStr(1)}
     ELSE /\ f.path = "prefix" /\ f.command = "clean"
          /\ f.arg = <<"2">>

ConcStep(p) ==
  \/ InteractionCreate(p) /\ InScenario(p, inv'[p])
  \/ DeferReply(p)
  \/ MessageCreate(p) /\ InScenario(p, inv'[p])
  \/ CmdDelete(p)
  \/ CleanFetch(p)
  \/ UntilFetch(p)
  \/ BulkDelete(p)
  \/ DeleteOld(p)
  \/ Pause(p)
  \/ PagePause(p)
  \/ Respond(p)
  \/ Catch(p)
  \/ ReplyTimer(p)

ConcNext == \E p \in Procs : ConcStep(p)

ConcSpec == ConcInit /\ [][ConcNext]_vars

\* ---------------------------------------------------------- setup script
\* The characters of an answer typed at a prompt; String.prototype.trim
\* takes the first two away at both ends.
Whitespace == {" ", "\t"}
Chars == Whitespace \cup {"x"}
Answers == UNION {[1..n -> Chars] : n \in 0..MaxAnswerLen}

RECURSIVE TrimStart(_)
TrimStart(s) ==
  IF s # <<>> /\ Head(s) \in Whitespace THEN TrimStart(Tail(s)) ELSE s
RECURSIVE TrimEnd(_)
TrimEnd(s) ==
  IF s # <<>> /\ s[Len(s)] \in Whitespace
    THEN TrimEnd(SubSeq(s, 1, Len(s) - 1))
  ELSE s
\* token.trim()
Trim(s) == TrimEnd(TrimStart(s))

\* !token: of all strings only the empty one is falsy.
Falsy(s) == s = <<>>

\* setupBotToken is entered: token is '' and the loop asks its first question.
SetupInit ==
  /\ channel = {}
  /\ createdTimestamp = [m \in {} |-> 0]
  /\ now = StartTime
  /\ nextId = MaxMsgs + 1
  /\ authorizedUsers = {}
  /\ canManage = FALSE
  /\ calls = <<>>
  /\ inv = [p \in Procs |-> IdleFrame]
  /\ setup = [SetupIdle EXCEPT !.pc = "ask"]

\* One answer to `await question('Enter your Discord Bot Token: ')`: the
\* body of the loop, the loop test and, when the loop is left, the write of
\* the .env file.
AskToken ==
  /\ setup.pc = "ask"
  /\ setup.prompts < MaxPrompts
  /\ \E answer \in Answers :
       LET asked == [setup EXCEPT
                       !.token = answer,
                       !.prompts = @ + 1,
                       !.complaints = IF Falsy(Trim(answer)) THEN @ + 1 ELSE @]
       IN setup' = IF Falsy(answer) THEN asked
                   ELSE [asked EXCEPT !.env = answer, !.written = TRUE,
                                      !.pc = "done"]
  /\ UNCHANGED <<channel, createdTimestamp, now, nextId, authorizedUsers,
                 canManage, calls, inv>>

SetupNext == AskToken

SetupSpec == SetupInit /\ [][SetupNext]_vars

\* -------------------------------------- messages arriving during a command
\* While /cleanuntil runs, other users post to the channel.  Such a message
\* is no command: the messageCreate handler returns at its first test and
\* all that happens is that the channel holds one message more.
MessageArrives ==
  /\ nextId < MaxMsgs + 1 + MaxPosts
  /\ channel' = channel \cup {nextId}
  /\ createdTimestamp' = createdTimestamp @@ (nextId :> now)
  /\ nextId' = nextId + 1
  /\ UNCHANGED <<now, authorizedUsers, canManage, calls, inv,
                 setup>>

\* A full channel, so that the history spans more than one page.
ArrivalInit ==
  /\ channel = 1..MaxMsgs
  /\ createdTimestamp \in
       {f \in [channel -> ConcStamps] :
          \A a, b \in channel : a < b => f[a] <= f[b]}
  /\ now = StartTime
  /\ nextId = MaxMsgs + 1
  /\ authorizedUsers = {"alice"}
  /\ canManage = TRUE
  /\ calls = <<>>
  /\ inv = [p \in Procs |-> IdleFrame]
  /\ setup = SetupIdle

\* The steps of the /cleanuntil of "a".
UntilStep(p) ==
  \/ InteractionCreate(p) /\ InScenario(p, inv'[p])
  \/ DeferReply(p)
  \/ UntilFetch(p)
  \/ BulkDelete(p)
  \/ DeleteOld(p)
  \/ Pause(p)
  \/ PagePause(p)
  \/ Respond(p)
  \/ Catch(p)

ArrivalNext == UntilStep("a") \/ MessageArrives

ArrivalSpec == ArrivalInit /\ [][ArrivalNext]_vars

\* The routine is resumed at each of its awaits; nothing obliges anyone to
\* post a message.
FairArrivalSpec == ArrivalSpec /\ WF_vars(UntilStep("a"))

\* ------------------------------------------------------- reading the log
\* The messages that were in the channel when the command arrived.
History == (DOMAIN createdTimestamp) \cap (1..MaxMsgs)

EngineIdx(p) == {i \in 1..Len(calls) : calls[i].inv = p /\ calls[i].by = "engine"}
FetchIdx(p) == {i \in EngineIdx(p) : calls[i].op = "fetch"}
BulkIdx(p) == {i \in EngineIdx(p) : calls[i].op = "bulkDelete"}
SingleIdx(p) == {i \in EngineIdx(p) : calls[i].op = "delete"}
DeleteIdx(p) == BulkIdx(p) \cup SingleIdx(p)

\* The fetch whose page the call at index i belongs to.
PageOf(p, i) == LET F == {k \in FetchIdx(p) : k <= i}
                IN CHOOSE k \in F : \A j \in F : j <= k
LastFetch(p) == LET F == FetchIdx(p)
                IN CHOOSE k \in F : \A j \in F : j <= k
\* The calls issued for the page fetched at index k.
InPage(p, k, I) ==
  LET F == FetchIdx(p)
  IN {i \in I : i > k /\ k \in F /\ \A j \in F : j <= i => j <= k}
Ids(I) == UNION {calls[i].ids : i \in I}

\* The routine of p has been entered / has ended.
Ran(p) == \/ inv[p].pc \in {"cleanFetch", "untilFetch", "bulk", "old", "pause",
                            "pagePause", "respond", "catch", "timer"}
          \/ inv[p].responses # <<>>
Ended(p) == Ran(p) /\ inv[p].pc \in {"done", "timer"}
\* Nothing is left to do for the page fetched last.
PageOver(p) == \/ inv[p].pc \in {"pagePause", "respond", "done", "timer"}
               \/ inv[p].pc = "catch" /\ inv[p].responses # <<>>

\* The message the target id names, when there is one.
TargetMsgs(p) == {t \in DOMAIN createdTimestamp : IdStr(t) = inv[p].targetMessageId}
TargetAbsent(p) == TargetMsgs(p) \cap History = {}

FailedIdx(p, I) == {i \in I : ~calls[i].ok}
\* No fetch and no bulk-delete call of p has failed.
NoAbort(p) == FailedIdx(p, FetchIdx(p) \cup BulkIdx(p)) = {}
\* No platform call of p has failed at all.
AllOk(p) == /\ \A i \in 1..Len(calls) : calls[i].inv = p => calls[i].ok
            /\ \A i \in 1..Len(inv[p].responses) : inv[p].responses[i].ok
            /\ ~inv[p].escaped

\* ================================================================== claims

\* C1: cleanUntilMessage never submits to a delete call (bulk or individual)
\* the target or a message created at or before the target's creation time,
\* and all of these are still in the channel when the routine has ended.
C1_NeverTouchesTargetOrOlder ==
  \A p \in Procs : inv[p].command = "cleanuntil" =>
    \A t \in TargetMsgs(p) \cap History :
      /\ \A m \in Ids(DeleteIdx(p)) : createdTimestamp[m] > createdTimestamp[t]
      /\ Ended(p) =>
           \A m \in History :
             createdTimestamp[m] <= createdTimestamp[t] => m \in channel

\* The candidates of the page p is working on: the page itself, or what is
\* newer than the target when the page holds it.
Candidates(p) ==
  IF inv[p].branch = "found"
  THEN Range(ToDelete(inv[p].messages, inv[p].targetMessageId))
  ELSE Range(inv[p].messages)
\* The age cutoff of the page the call at index i belongs to: both are
\* computed without an await in between, so at the time of the fetch.
CutoffAt(p, i) == calls[PageOf(p, i)].at - FourteenDays

\* C2: in every page the candidates are split into two disjoint buckets that
\* cover them: what is newer than the cutoff (now - 14 days) goes to the
\* bulk-delete call only, what is at or before it to individual calls only.
C2_PartitionDisjointCover ==
  \A p \in Procs :
    /\ \A i \in BulkIdx(p) : \A m \in calls[i].ids :
         /\ createdTimestamp[m] > CutoffAt(p, i)
         /\ m \notin Ids(InPage(p, PageOf(p, i), SingleIdx(p)))
    /\ \A i \in SingleIdx(p) : \A m \in calls[i].ids :
         /\ createdTimestamp[m] <= CutoffAt(p, i)
         /\ m \notin Ids(InPage(p, PageOf(p, i), BulkIdx(p)))
    /\ inv[p].pc \in {"bulk", "old", "pause"} =>
         LET single == Ids(InPage(p, LastFetch(p), SingleIdx(p)))
             aged == single \cup Range(inv[p].oldQueue)
         IN /\ inv[p].recent \cup aged = Candidates(p)
            /\ inv[p].recent \cap aged = {}
            /\ \A m \in inv[p].recent : createdTimestamp[m] > inv[p].twoWeeksAgo
            /\ \A m \in aged : createdTimestamp[m] <= inv[p].twoWeeksAgo

\* A page of cleanUntilMessage, the one that holds the target, for which a
\* bulk-delete call and an individual delete call have both been issued.
C2_Witness ==
  \E p \in Procs :
    /\ inv[p].command = "cleanuntil" /\ inv[p].branch = "found"
    /\ inv[p].pc = "done"
    /\ \E i \in BulkIdx(p), j \in SingleIdx(p) : PageOf(p, i) = PageOf(p, j)

\* The messages of the page fetched last that are newer than the target.
NewerThanTarget(p) ==
  {m \in calls[LastFetch(p)].ids :
     \A t \in TargetMsgs(p) : createdTimestamp[m] > createdTimestamp[t]}
\* What has been submitted to the delete calls of the page fetched last.
SubmittedLast(p) == Ids(InPage(p, LastFetch(p), DeleteIdx(p)))
\* The first page that holds the target ends the loop: it is the last page
\* fetched, targetFound is set and only newer messages are submitted.
StopsAtTarget(p) ==
  /\ \A j \in FetchIdx(p) :
       TargetMsgs(p) \cap calls[j].ids # {} =>
         inv[p].targetFound /\ j = LastFetch(p)
  /\ inv[p].targetFound =>
       /\ TargetMsgs(p) \cap calls[LastFetch(p)].ids # {}
       /\ inv[p].pc \notin {"untilFetch", "pagePause"}
       /\ SubmittedLast(p) \subseteq NewerThanTarget(p)

\* C3 as stated: when a page holds the target, exactly the messages of that
\* page that are newer than the target are submitted to delete calls,
\* targetFound is set and no further fetch is issued.
C3_ExactlyNewerThanTarget ==
  \A p \in Procs : inv[p].command = "cleanuntil" =>
    /\ StopsAtTarget(p)
    /\ inv[p].targetFound /\ Ended(p) => SubmittedLast(p) = NewerThanTarget(p)

\* C3 as amended: the same, but when the bulk-delete call of that page fails
\* the routine leaves the page at once and only the recent ones among the
\* newer messages have been submitted.
C3_NewerThanTargetUnlessBulkFails ==
  \A p \in Procs : inv[p].command = "cleanuntil" =>
    /\ StopsAtTarget(p)
    /\ inv[p].targetFound /\ Ended(p) =>
         IF FailedIdx(p, BulkIdx(p)) = {}
         THEN SubmittedLast(p) = NewerThanTarget(p)
         ELSE SubmittedLast(p) =
                {m \in NewerThanTarget(p) :
                   createdTimestamp[m] > CutoffAt(p, LastFetch(p))}

\* The target in the middle of its page: something newer was submitted,
\* something older was fetched with it and is still there.
C3_Witness ==
  \E p \in Procs :
    /\ inv[p].targetFound /\ inv[p].pc = "done"
    /\ SubmittedLast(p) = NewerThanTarget(p) /\ SubmittedLast(p) # {}
    /\ \E m \in calls[LastFetch(p)].ids : \E t \in TargetMsgs(p) : m < t /\ m \in channel

\* Every step that is enabled is eventually taken: the event loop resumes
\* each await once the platform has answered or the timer has fired.
FairSpec == Spec /\ WF_vars(Next)

\* With the target nowhere in the channel: the fetches are bounded by the
\* size of the history, the first fetch that returns nothing is the last one,
\* and without a failed fetch or bulk-delete call the routine ends there and
\* reports that the target was not found.
ExhaustsHistory(p) ==
  /\ Cardinality(FetchIdx(p)) <= Cardinality(History) + 1
  /\ ~inv[p].targetFound
  /\ \A j \in FetchIdx(p) :
       calls[j].ok /\ calls[j].ids = {} =>
         j = LastFetch(p) /\ inv[p].pc \in {"respond", "catch", "done", "timer"}
  /\ Ended(p) /\ NoAbort(p) =>
       /\ calls[LastFetch(p)].ids = {}
       /\ inv[p].responses[1].kind = "notFound"

\* C4 as stated: with the target nowhere in the channel the routine ends at
\* a fetch that returns nothing and reports that the target was not found.
C4_StopsAtEmptyFetch ==
  \A p \in Procs :
    inv[p].command = "cleanuntil" /\ TargetAbsent(p) /\ Ended(p) =>
      /\ calls[LastFetch(p)].ok /\ calls[LastFetch(p)].ids = {}
      /\ inv[p].responses[1].kind = "notFound"

\* C4 as amended: cleanUntilMessage always terminates; with the target
\* nowhere in the channel it does so after at most |history| + 1 fetches,
\* and unless a fetch or a bulk-delete call fails it stops at the first
\* fetch that returns nothing and reports targetFound = false, whether or
\* not individual deletes failed.
C4_ExhaustionTerminates ==
  /\ \A p \in Single : (inv[p].pc = "untilFetch") ~> (inv[p].pc = "done")
  /\ [](\A p \in Procs :
          inv[p].command = "cleanuntil" /\ TargetAbsent(p) => ExhaustsHistory(p))

\* The history ran out after more than one page, with a failed individual
\* delete on the way, and the routine reported that the target was not found.
C4_Witness ==
  \E p \in Procs :
    /\ inv[p].command = "cleanuntil" /\ TargetAbsent(p) /\ inv[p].pc = "done"
    /\ Cardinality(FetchIdx(p)) = 3
    /\ FailedIdx(p, SingleIdx(p)) # {}
    /\ inv[p].responses = <<[kind |-> "notFound", count |-> NoCount, ok |-> TRUE]>>

\* The history ran out before the target was found: the last fetch of
\* cleanUntilMessage returned nothing.
Exhausted(p) ==
  /\ inv[p].command = "cleanuntil" /\ FetchIdx(p) # {}
  /\ calls[LastFetch(p)].ok /\ calls[LastFetch(p)].ids = {}
\* The messages met in the pages fetched; no message is met in two pages.
Encountered(p) == Ids(FetchIdx(p))
PagesDisjoint(p) ==
  \A i, j \in FetchIdx(p) : i # j => calls[i].ids \cap calls[j].ids = {}

\* C5 as stated: when the history is exhausted without the target being
\* found, deletedCount is the number of messages met in all pages.
C5_CountEqualsEncountered ==
  \A p \in Procs : Exhausted(p) =>
    inv[p].deletedCount = Cardinality(Encountered(p))

\* C5 as amended: deletedCount is then the number of messages met in all
\* pages less the number of individual delete calls that failed.
C5_CountEncounteredLessFailed ==
  \A p \in Procs : Exhausted(p) =>
    /\ PagesDisjoint(p)
    /\ inv[p].deletedCount =
         Cardinality(Encountered(p)) - Cardinality(FailedIdx(p, SingleIdx(p)))

\* Two pages and the empty one, one individual delete failed, others counted.
C5_Witness ==
  \E p \in Procs :
    /\ Exhausted(p) /\ inv[p].pc = "done"
    /\ Cardinality(FetchIdx(p)) = 3
    /\ Cardinality(FailedIdx(p, SingleIdx(p))) = 1
    /\ inv[p].deletedCount = Cardinality(Encountered(p)) - 1
    /\ inv[p].deletedCount >= 2

\* The candidates of the page fetched at index k, and the aged ones among
\* them, read from the log.
CandidatesOf(p, k) ==
  LET T == TargetMsgs(p)
  IN IF inv[p].command = "cleanuntil" /\ T \cap calls[k].ids # {}
     THEN {m \in calls[k].ids :
             \A t \in T : createdTimestamp[m] > createdTimestamp[t]}
     ELSE calls[k].ids
AgedOf(p, k) ==
  {m \in CandidatesOf(p, k) : createdTimestamp[m] <= calls[k].at - FourteenDays}
\* Nothing is left to do for the page fetched at index k.
PageDone(p, k) == k # LastFetch(p) \/ PageOver(p)
LastCall(p) == CHOOSE i \in EngineIdx(p) : \A j \in EngineIdx(p) : j <= i

\* C6: a failed individual delete call never prevents the later ones.  The
\* error path is entered only from a failed fetch or bulk-delete call (or a
\* failed response); every aged message of a page whose bulk-delete call did
\* not fail gets exactly one individual delete call; cleanUntilMessage goes
\* on to the next page until a page is empty or holds the target; and the
\* routine ends with its completion message.
C6_FailureDoesNotAbort ==
  \A p \in Procs :
    /\ inv[p].pc = "catch" /\ inv[p].responses = <<>> =>
         /\ calls[LastCall(p)].op \in {"fetch", "bulkDelete"}
         /\ ~calls[LastCall(p)].ok
    /\ \A k \in FetchIdx(p) :
         PageDone(p, k) /\ FailedIdx(p, InPage(p, k, BulkIdx(p))) = {} =>
           LET single == InPage(p, k, SingleIdx(p))
               aged == AgedOf(p, k)
           IN /\ Ids(single) = aged
              /\ Cardinality(single) = Cardinality(aged)
    /\ Ended(p) /\ NoAbort(p) =>
         /\ inv[p].responses[1].kind # "error"
         /\ inv[p].command = "cleanuntil" =>
              \/ calls[LastFetch(p)].ids = {}
              \/ TargetMsgs(p) \cap calls[LastFetch(p)].ids # {}

\* An individual delete failed, the next aged message of the same page got
\* its call, the next page was fetched and deleted from, and the routine
\* ended with a completion message.
C6_Witness ==
  \E p \in Procs :
    /\ inv[p].pc = "done"
    /\ inv[p].responses # <<>>
    /\ inv[p].responses[1].kind \in {"successUntil", "notFound"}
    /\ \E i \in FailedIdx(p, SingleIdx(p)) :
         /\ \E j \in SingleIdx(p) : i < j /\ PageOf(p, i) = PageOf(p, j)
         /\ \E k \in FetchIdx(p) : i < k /\ \E l \in DeleteIdx(p) : k < l

\* C7: for an amount in 1..100, one run of cleanMessages issues exactly one
\* fetch (asking for `amount` messages), at most one bulk-delete call and at
\* most `amount` individual delete calls, and deletedCount is at most amount.
C7_CleanCallBounds ==
  \A p \in Procs :
    /\ inv[p].command = "clean"
    /\ inv[p].amount >= MinAmount /\ inv[p].amount <= MaxAmount
    => /\ Cardinality(FetchIdx(p)) <= 1
       /\ Ran(p) /\ inv[p].pc # "cleanFetch" => Cardinality(FetchIdx(p)) = 1
       /\ \A k \in FetchIdx(p) :
            calls[k].limit = inv[p].amount /\ calls[k].before = NoId
       /\ Cardinality(BulkIdx(p)) <= 1
       /\ Cardinality(SingleIdx(p)) <= inv[p].amount
       /\ inv[p].deletedCount <= inv[p].amount

\* Fewer messages asked for than the channel holds, and both bounds reached:
\* one bulk-delete call, and deletedCount = amount.
C7_Witness ==
  \E p \in Procs :
    /\ inv[p].command = "clean" /\ inv[p].pc = "done"
    /\ inv[p].amount = 2 /\ Cardinality(History) > 2
    /\ Cardinality(BulkIdx(p)) = 1 /\ Cardinality(SingleIdx(p)) = 1
    /\ inv[p].deletedCount = inv[p].amount

\* What the one fetch of cleanMessages returned, and its two buckets.
Fetched(p) == calls[LastFetch(p)].ids
RecentFetched(p) ==
  {m \in Fetched(p) : createdTimestamp[m] > CutoffAt(p, LastFetch(p))}
AgedFetched(p) == Fetched(p) \ RecentFetched(p)
\* A run of cleanMessages that has ended with no platform call failing.
CleanRunOk(p) == inv[p].command = "clean" /\ Ended(p) /\ AllOk(p)
\* The aged messages get one individual call each, the count reported is the
\* number fetched, the min(amount, channel size) newest messages were
\* fetched and none of them is left.
AgedAndCount(p) ==
  /\ Ids(SingleIdx(p)) = AgedFetched(p)
  /\ Cardinality(SingleIdx(p)) = Cardinality(AgedFetched(p))
  /\ inv[p].responses =
       <<[kind |-> "success", count |-> Cardinality(Fetched(p)), ok |-> TRUE]>>
  /\ inv[p].deletedCount = Cardinality(Fetched(p))
  /\ Fetched(p) = Range(Take(SortDesc(History), inv[p].amount))
  /\ Cardinality(Fetched(p)) =
       IF inv[p].amount < Cardinality(History) THEN inv[p].amount
       ELSE Cardinality(History)
  /\ Fetched(p) \cap channel = {}

\* C8 as stated: when no platform call fails, cleanMessages issues one
\* bulk-delete call whose ids are exactly the recent fetched messages, one
\* individual call per aged one, reports the number fetched and leaves none
\* of the fetched messages in the channel.
C8_OneBulkCallAllDeleted ==
  \A p \in Procs : CleanRunOk(p) =>
    /\ Cardinality(BulkIdx(p)) = 1
    /\ \A i \in BulkIdx(p) : calls[i].ids = RecentFetched(p)
    /\ AgedAndCount(p)

\* C8 as amended: the one bulk-delete call is issued when at least one of the
\* fetched messages is recent, and no bulk-delete call otherwise.
C8_BulkCallWhenRecent ==
  \A p \in Procs : CleanRunOk(p) =>
    /\ Cardinality(BulkIdx(p)) = IF RecentFetched(p) = {} THEN 0 ELSE 1
    /\ \A i \in BulkIdx(p) : calls[i].ids = RecentFetched(p)
    /\ AgedAndCount(p)

\* Recent and aged messages among the fetched ones, all of the channel
\* fetched because the amount is larger than the channel.
C8_Witness ==
  \E p \in Procs :
    /\ CleanRunOk(p) /\ inv[p].pc = "done"
    /\ Cardinality(RecentFetched(p)) >= 2 /\ Cardinality(AgedFetched(p)) >= 2
    /\ inv[p].amount > Cardinality(History)
    /\ inv[p].deletedCount = 4

\* C9: an amount outside 1..100 that reaches cleanMessages makes it fail
\* before any platform call: no fetch and no delete call is issued for it.
C9_BadAmountNoPlatformCall ==
  \A p \in Procs :
    /\ inv[p].command = "clean" /\ Ran(p)
    /\ inv[p].amount < MinAmount \/ inv[p].amount > MaxAmount
    => EngineIdx(p) = {}

\* C10: a cleanuntil command whose target id is missing or not a string of
\* digits ends in the handler: neither routine is entered, no fetch and no
\* delete call is made (the command message is not deleted either), and the
\* one reply is the validation message, or the refusal when the user or the
\* bot lacks the right.
C10_BadTargetRejected ==
  \A p \in Procs :
    inv[p].command = "cleanuntil" /\ ~IsDigits(inv[p].arg) /\ inv[p].pc # "idle" =>
      /\ inv[p].pc = "done" /\ ~Ran(p) /\ inv[p].responses = <<>>
      /\ \A i \in 1..Len(calls) : calls[i].inv # p
      /\ inv[p].path = "prefix" => inv[p].cmdMsg \in channel
      /\ inv[p].replies =
           <<IF ~IsAuthorized(inv[p].user) THEN "unauthorized"
             ELSE IF ~canManage THEN "noPermission"
             ELSE "invalidId">>

\* `!cleanuntil 2x` from an authorized user: the validation reply, and the
\* command message still in the channel.
C10_Witness ==
  \E p \in Procs :
    /\ inv[p].command = "cleanuntil" /\ inv[p].path = "prefix"
    /\ inv[p].arg = <<"2", "x">>
    /\ inv[p].replies = <<"invalidId">>
    /\ inv[p].cmdMsg \in channel /\ calls = <<>>

\* C11: no failure escapes a routine: whatever platform calls fail (fetch,
\* bulk delete, individual delete, sending the response), a routine that was
\* entered never rejects to the handler that awaits it.
C11_NeverRejectsToCaller ==
  \A p \in Procs : Ran(p) => ~inv[p].escaped

\* C12: when a routine aborts (a fetch or a bulk-delete call failed) after it
\* has deleted messages, the result handed to the response callback carries
\* the number of messages deleted so far.
C12_AbortReportsCount ==
  \A p \in Procs : \A i \in 1..Len(inv[p].responses) :
    /\ ~NoAbort(p)
    /\ inv[p].responses[i].kind = "error"
    /\ inv[p].deletedCount > 0
    => inv[p].responses[i].count = inv[p].deletedCount

\* The first fetch of the routine, and whether it failed.
FirstFetch(p) == CHOOSE k \in FetchIdx(p) : \A j \in FetchIdx(p) : k <= j
FirstFetchFailed(p) == FetchIdx(p) # {} /\ ~calls[FirstFetch(p)].ok

\* C13: when the first fetch of a routine fails, no bulk-delete and no
\* individual delete call is issued, every message of the channel stays, and
\* once the routine has ended the caller has received an error result that
\* reports zero deletions.
C13_FirstFetchFailureReportsZero ==
  \A p \in Procs : FirstFetchFailed(p) =>
    /\ DeleteIdx(p) = {}
    /\ History \subseteq channel
    /\ Ended(p) =>
         \E i \in 1..Len(inv[p].responses) :
           inv[p].responses[i] = [kind |-> "error", count |-> 0, ok |-> TRUE]

\* The error text is what the routine hands to its callback first.
Surfaced(p) == inv[p].responses # <<>> /\ inv[p].responses[1].kind = "error"
\* What a successful delete call has removed is not in the channel.
DeletionsKept(p) ==
  \A j \in DeleteIdx(p) : calls[j].ok => calls[j].ids \cap channel = {}

\* C14 as stated: a rejected fetch, bulk-delete or individual delete call is
\* the last platform call of the routine, the failure is surfaced to the
\* caller and the deletions already performed are kept.
C14_AbortsAtAnyRejectedCall ==
  \A p \in Procs : \A i \in FailedIdx(p, EngineIdx(p)) :
    /\ i = LastCall(p)
    /\ Ended(p) => Surfaced(p)
    /\ DeletionsKept(p)

\* C14 as amended: a rejected fetch or bulk-delete call is the last platform
\* call of the routine, which goes to its catch block, hands the error text
\* to its callback and keeps the deletions already performed; a rejected
\* individual delete call is skipped, and later calls are issued after it.
C14_AbortsAtRejectedFetchOrBulk ==
  \A p \in Procs : \A i \in FailedIdx(p, FetchIdx(p) \cup BulkIdx(p)) :
    /\ i = LastCall(p)
    /\ inv[p].pc \in {"catch", "done", "timer"}
    /\ Ended(p) => Surfaced(p)
    /\ DeletionsKept(p)

\* The bulk-delete call of the second page was rejected after the first page
\* had been deleted: the error text went out, what was deleted stays deleted
\* and the rest of the history is still there.
C14_Witness ==
  \E p \in Procs :
    /\ inv[p].command = "cleanuntil" /\ inv[p].pc = "done"
    /\ Cardinality(FetchIdx(p)) = 2
    /\ FailedIdx(p, BulkIdx(p)) # {}
    /\ inv[p].deletedCount >= 2
    /\ Surfaced(p) /\ inv[p].responses[1].ok
    /\ History \cap channel # {} /\ History \ channel # {}

\* C15: a slash or prefix command of a user who is not in
\* config.authorizedUsers, or one that arrives while the bot lacks Manage
\* Messages, makes no fetch and no delete call (the command message is not
\* deleted either) and enters no routine: the handler ends with the one
\* refusal as its reply and no message is removed from the channel.
C15_NoCleanupUnlessAuthorized ==
  \A p \in Procs :
    /\ inv[p].command # "none"
    /\ inv[p].user \notin authorizedUsers \/ ~canManage
    => /\ \A i \in 1..Len(calls) : calls[i].inv # p
       /\ ~Ran(p) /\ inv[p].pc = "done"
       /\ inv[p].replies =
            <<IF inv[p].user \notin authorizedUsers THEN "unauthorized"
              ELSE "noPermission">>
       /\ History \subseteq channel
       /\ inv[p].path = "prefix" => inv[p].cmdMsg \in channel

\* `!clean 2` from a user who is not on the list, the bot holding the
\* permission and the channel holding messages: the refusal, nothing else.
C15_Witness ==
  \E p \in Procs :
    /\ inv[p].command = "clean" /\ inv[p].path = "prefix"
    /\ inv[p].arg = <<"2">> /\ inv[p].user = "mallory"
    /\ authorizedUsers = {"alice"} /\ canManage
    /\ Cardinality(History) >= 2
    /\ inv[p].replies = <<"unauthorized">>
    /\ History \subseteq channel /\ calls = <<>>

\* The messages the successful delete calls of a routine covered.
OkIds(p) == Ids({i \in DeleteIdx(p) : calls[i].ok})
\* The messages either routine has covered with a successful delete call, and
\* those of the history that are gone from the channel.
Covered == OkIds("a") \cup OkIds("b")
Removed == History \ channel

\* C16: two invocations on one channel are not serialized.  Each counts every
\* message its own successful delete calls covered, whether or not the other
\* invocation covered and counted it too: the sum of the two deletedCounts is
\* the number of messages covered plus the number of messages both covered.
C16_CountsOwnCallsOnly ==
  LET A == OkIds("a")
      B == OkIds("b")
  IN /\ Procs = {"a", "b"}
     /\ inv["a"].deletedCount = Cardinality(A)
     /\ inv["b"].deletedCount = Cardinality(B)
     /\ inv["a"].deletedCount + inv["b"].deletedCount =
          Cardinality(A \cup B) + Cardinality(A \cap B)

\* Both routines fetched the same two messages, both bulk-delete calls were
\* issued for them and returned, both counted them: no other message was
\* covered, and the counts add up to more than was removed from the channel.
C16_Witness ==
  /\ inv["a"].pc = "done" /\ inv["b"].pc = "done"
  /\ \E i \in BulkIdx("a"), j \in BulkIdx("b") :
       /\ calls[i].ok /\ calls[j].ok
       /\ Cardinality(calls[i].ids \cap calls[j].ids) >= 2
       /\ calls[i].ids \cap calls[j].ids \subseteq
            Ids(FetchIdx("a")) \cap Ids(FetchIdx("b"))
  /\ Covered \subseteq History
  /\ inv["a"].deletedCount + inv["b"].deletedCount > Cardinality(Removed)

MinId(S) == CHOOSE x \in S : \A y \in S : x <= y
\* The fetches of p issued before the one at index k.
Earlier(p, k) == {j \in FetchIdx(p) : j < k}
PrevFetch(p, k) == CHOOSE j \in Earlier(p, k) : \A i \in Earlier(p, k) : i <= j

\* C17: in cleanUntilMessage the cursor is the oldest id of the page fetched
\* last from the moment the page is there, so before any delete call of that
\* page; the first fetch has no cursor and every later one asks for what is
\* older than the oldest id of the page before it; the cursor gets strictly
\* smaller from fetch to fetch, and no message is in two pages, whether or
\* not its delete call failed.
C17_CursorAdvancesBeforeDeletes ==
  \A p \in Procs : inv[p].command = "cleanuntil" =>
    /\ inv[p].pc \in {"bulk", "old", "pause", "pagePause"} =>
         /\ calls[LastFetch(p)].ok /\ calls[LastFetch(p)].ids # {}
         /\ inv[p].lastMessageId = MinId(calls[LastFetch(p)].ids)
         /\ \A i \in InPage(p, LastFetch(p), DeleteIdx(p)) :
              \A m \in calls[i].ids : inv[p].lastMessageId <= m
    /\ \A k \in FetchIdx(p) :
         IF Earlier(p, k) = {} THEN calls[k].before = NoId
         ELSE /\ calls[k].before = MinId(calls[PrevFetch(p, k)].ids)
              /\ \A m \in calls[k].ids : m < calls[k].before
              /\ \A j \in Earlier(p, k) :
                   calls[j].before = NoId \/ calls[k].before < calls[j].before
    /\ PagesDisjoint(p)

\* An individual delete of the first page failed and the message is still in
\* the channel; the next fetch returned older messages only, and a third
\* fetch followed.
C17_Witness ==
  \E p \in Procs :
    /\ inv[p].command = "cleanuntil" /\ inv[p].pc = "done"
    /\ Cardinality(FetchIdx(p)) = 3
    /\ \E i \in FailedIdx(p, SingleIdx(p)) : \E k \in FetchIdx(p) :
         /\ i < k /\ calls[k].ids # {}
         /\ calls[i].ids \subseteq channel
         /\ \A m \in calls[k].ids : \A n \in calls[i].ids : m < n

\* C18: within one invocation no message id is covered by two delete calls:
\* a failed individual delete is not retried, and no message goes both to a
\* bulk-delete call and to an individual delete call.
C18_AtMostOneDeleteCallPerMessage ==
  \A p \in Procs :
    /\ \A i, j \in DeleteIdx(p) : i # j => calls[i].ids \cap calls[j].ids = {}
    /\ \A i \in FailedIdx(p, SingleIdx(p)) : \A j \in DeleteIdx(p) :
         j > i => calls[i].ids \cap calls[j].ids = {}
    /\ Ids(BulkIdx(p)) \cap Ids(SingleIdx(p)) = {}

\* A bulk-delete call and several individual calls, one of which failed: its
\* message is still in the channel when the routine has ended.
C18_Witness ==
  \E p \in Procs :
    /\ inv[p].pc = "done" /\ Ran(p)
    /\ BulkIdx(p) # {} /\ Cardinality(SingleIdx(p)) >= 2
    /\ \E i \in FailedIdx(p, SingleIdx(p)) :
         /\ calls[i].ids \subseteq channel
         /\ \E j \in SingleIdx(p) : j > i

\* C19: every individual delete call is followed by the 100 ms pacing pause
\* before the next platform call of the invocation is issued: a later call
\* of the routine is issued at least 100 ms after it.
C19_PauseAfterEveryIndividualDelete ==
  \A p \in Procs : \A i \in SingleIdx(p) : \A j \in EngineIdx(p) :
    j > i => calls[j].at >= calls[i].at + DeleteDelay

\* The individual delete calls of the page fetched at index k that succeeded.
OkSingles(p, k) == {i \in InPage(p, k, SingleIdx(p)) : calls[i].ok}
\* The page fetched at index k ended the loop: it was empty or held the target.
LastPage(p, k) == calls[k].ids = {} \/ TargetMsgs(p) \cap calls[k].ids # {}

\* C20: in cleanUntilMessage the 1000 ms pause between pages is taken after
\* all delete calls of a page that did not hold the target, and only then: at
\* the pause the page fetched last is not empty, does not hold the target
\* and all of its messages have been submitted; two consecutive fetches are
\* separated by exactly one such pause (and the 100 ms pauses of the
\* successful individual deletes in between); after the page that holds the
\* target or an empty page the routine goes to its response.
C20_PagePauseBetweenFullPages ==
  \A p \in Procs : inv[p].command = "cleanuntil" =>
    /\ inv[p].pc = "pagePause" =>
         /\ calls[LastFetch(p)].ok /\ ~LastPage(p, LastFetch(p))
         /\ Ids(InPage(p, LastFetch(p), DeleteIdx(p))) = calls[LastFetch(p)].ids
    /\ \A k \in FetchIdx(p) : Earlier(p, k) # {} =>
         /\ ~LastPage(p, PrevFetch(p, k))
         /\ calls[k].at = calls[PrevFetch(p, k)].at + PageDelay
              + DeleteDelay * Cardinality(OkSingles(p, PrevFetch(p, k)))
    /\ inv[p].pc = "respond" => LastPage(p, LastFetch(p))
    /\ FetchIdx(p) # {} /\ calls[LastFetch(p)].ok /\ LastPage(p, LastFetch(p)) =>
         inv[p].pc \notin {"pagePause", "untilFetch"}

\* Two pages without the target and the empty one, with successful
\* individual deletes on the way: two pauses between pages, none at the end.
C20_Witness ==
  \E p \in Procs :
    /\ inv[p].command = "cleanuntil" /\ inv[p].path = "slash"
    /\ inv[p].pc = "done"
    /\ Cardinality(FetchIdx(p)) = 3 /\ calls[LastFetch(p)].ids = {}
    /\ \E k \in FetchIdx(p) : OkSingles(p, k) # {}
    /\ now = StartTime + 2 * PageDelay
               + DeleteDelay * Cardinality({i \in SingleIdx(p) : calls[i].ok})

\* The request an invocation is suspended at: issued when the await is
\* reached, answered by the step that leaves it.
Outstanding(p) ==
  IF inv[p].pc \in {"cleanFetch", "untilFetch"} THEN {[op |-> "fetch", ids |-> {}]}
  ELSE IF inv[p].pc = "bulk" THEN {[op |-> "bulkDelete", ids |-> inv[p].recent]}
  ELSE IF inv[p].pc = "old" THEN {[op |-> "delete", ids |-> {Head(inv[p].oldQueue)}]}
  ELSE {}

\* C21: the platform calls of one invocation are strictly sequential.  At
\* most one request is outstanding; while the bulk-delete call of a page is
\* outstanding no individual delete of that page has been issued, and an
\* individual delete is issued only when the bulk-delete call for the recent
\* messages of the page has returned; a fetch is issued only when every
\* delete call of the page before it has returned, and every delete call in
\* the log is for a message of the page fetched last before it, the bulk call
\* of a page before its individual calls.
C21_CallsStrictlySequential ==
  \A p \in Procs :
    /\ Cardinality(Outstanding(p)) <= 1
    /\ inv[p].pc = "bulk" =>
         /\ inv[p].recent # {}
         /\ InPage(p, LastFetch(p), DeleteIdx(p)) = {}
    /\ inv[p].pc = "old" =>
         /\ inv[p].recent # {} =>
              \E i \in InPage(p, LastFetch(p), BulkIdx(p)) :
                calls[i].ok /\ calls[i].ids = inv[p].recent
         /\ Head(inv[p].oldQueue) \notin Ids(InPage(p, LastFetch(p), DeleteIdx(p)))
    /\ inv[p].pc = "untilFetch" /\ FetchIdx(p) # {} =>
         /\ inv[p].oldQueue = <<>>
         /\ Ids(InPage(p, LastFetch(p), DeleteIdx(p))) = calls[LastFetch(p)].ids
    /\ \A i \in DeleteIdx(p) : calls[i].ids \subseteq calls[PageOf(p, i)].ids
    /\ \A i \in BulkIdx(p) : \A j \in SingleIdx(p) :
         PageOf(p, i) = PageOf(p, j) => i < j

\* Two pages, the first with a bulk-delete call followed by two individual
\* deletes, then the second fetch and a delete call for its page.
C21_Witness ==
  \E p \in Procs :
    /\ inv[p].command = "cleanuntil" /\ inv[p].pc = "done"
    /\ Cardinality(FetchIdx(p)) >= 2
    /\ \E i \in BulkIdx(p) :
         /\ Cardinality(InPage(p, PageOf(p, i), SingleIdx(p))) >= 2
         /\ \E k \in FetchIdx(p) : k > i /\ InPage(p, k, DeleteIdx(p)) # {}

\* The delete calls of the page fetched at index k that cover message m.
CallsFor(p, k, m) == {i \in InPage(p, k, DeleteIdx(p)) : m \in calls[i].ids}
\* Message m of the page fetched at k went to exactly one delete call: the
\* bulk call if it was recent at the fetch, an individual call if aged.
SubmittedOnce(p, k, m) ==
  LET to == CallsFor(p, k, m)
  IN /\ Cardinality(to) = 1
     /\ \A i \in to :
          calls[i].op = IF createdTimestamp[m] > calls[k].at - FourteenDays
                        THEN "bulkDelete" ELSE "delete"
\* A page of cleanUntilMessage without the target that the routine is done with.
FullPage(p, k) ==
  /\ calls[k].ok /\ TargetMsgs(p) \cap calls[k].ids = {}
  /\ PageDone(p, k)

\* C22 as stated: every message of a page without the target is submitted to
\* exactly one delete call, and with the target nowhere in the channel every
\* message of the history has been submitted when the routine has ended.
C22_WholePageSubmitted ==
  \A p \in Procs : inv[p].command = "cleanuntil" =>
    /\ \A k \in FetchIdx(p) : FullPage(p, k) =>
         \A m \in calls[k].ids : SubmittedOnce(p, k, m)
    /\ TargetAbsent(p) /\ Ended(p) => History \subseteq Ids(DeleteIdx(p))

\* C22 as amended: the same for a page whose bulk-delete call was not
\* rejected, and for a run in which no fetch and no bulk-delete call was
\* rejected; when the bulk-delete call of a page is rejected only the recent
\* messages of that page have been submitted and no later call follows.
C22_WholePageSubmittedUnlessAborted ==
  \A p \in Procs : inv[p].command = "cleanuntil" =>
    /\ \A k \in FetchIdx(p) : FullPage(p, k) =>
         IF FailedIdx(p, InPage(p, k, BulkIdx(p))) = {}
         THEN \A m \in calls[k].ids : SubmittedOnce(p, k, m)
         ELSE /\ k = LastFetch(p)
              /\ InPage(p, k, SingleIdx(p)) = {}
              /\ Ids(InPage(p, k, BulkIdx(p))) =
                   {m \in calls[k].ids :
                      createdTimestamp[m] > calls[k].at - FourteenDays}
    /\ TargetAbsent(p) /\ Ended(p) /\ NoAbort(p) =>
         History \subseteq Ids(DeleteIdx(p))

\* The target nowhere, two full pages with recent and aged messages, no
\* rejected fetch or bulk call: the whole history was submitted.
C22_Witness ==
  \E p \in Procs :
    /\ inv[p].command = "cleanuntil" /\ TargetAbsent(p) /\ inv[p].pc = "done"
    /\ NoAbort(p) /\ Cardinality(FetchIdx(p)) = 3
    /\ BulkIdx(p) # {} /\ SingleIdx(p) # {}
    /\ Cardinality(History) = MaxMsgs
    /\ History = Ids(DeleteIdx(p))

RECURSIVE SumSizes(_)
\* The sizes of the id sets of the calls at the indices I, added up.
SumSizes(I) == IF I = {} THEN 0
               ELSE LET i == CHOOSE x \in I : TRUE
                    IN Cardinality(calls[i].ids) + SumSizes(I \ {i})
\* The bulk-delete calls of p that have returned and its individual delete
\* calls that have succeeded.
Returned(p) == {i \in DeleteIdx(p) : calls[i].ok}
\* deletedCount is that sum, which is the number of messages p has removed,
\* and a response that carries a count carries this one.
CountIsDeleted(p) ==
  /\ inv[p].deletedCount = SumSizes(Returned(p))
  /\ inv[p].deletedCount = Cardinality(Ids(Returned(p)))
  /\ Ids(Returned(p)) \cap channel = {}
  /\ Ids(FailedIdx(p, SingleIdx(p))) \cap Ids(Returned(p)) = {}
  /\ \A i \in 1..Len(inv[p].responses) :
       inv[p].responses[i].count # NoCount =>
         inv[p].responses[i].count = inv[p].deletedCount

\* C23: at every point of an invocation deletedCount is the sum of the sizes
\* of the bulk-delete calls that have returned plus the number of individual
\* delete calls that have succeeded; a message whose individual delete failed
\* is not counted; the count handed to the caller is the number of messages
\* deleted; and deletedCount never decreases.
C23_CountIsSumOfSuccessfulCalls ==
  /\ [](\A p \in Procs : CountIsDeleted(p))
  /\ [][\A p \in Procs : inv'[p].deletedCount >= inv[p].deletedCount]_vars

\* A bulk-delete call of two messages, one individual delete that succeeded
\* and one that failed: 3 is reported and three messages are gone.
C23_Witness ==
  \E p \in Procs :
    /\ inv[p].command = "clean" /\ inv[p].pc = "done"
    /\ \E i \in BulkIdx(p) : calls[i].ok /\ Cardinality(calls[i].ids) = 2
    /\ Cardinality(SingleIdx(p)) = 2 /\ Cardinality(FailedIdx(p, SingleIdx(p))) = 1
    /\ inv[p].responses = <<[kind |-> "success", count |-> 3, ok |-> TRUE]>>
    /\ Cardinality(History \ channel) = 3

MaxId(S) == CHOOSE x \in S : \A y \in S : y <= x
\* The first fetch of cleanUntilMessage returned a page whose newest message
\* is the target.
TargetNewest(p) ==
  /\ inv[p].command = "cleanuntil" /\ FetchIdx(p) # {}
  /\ calls[FirstFetch(p)].ok /\ calls[FirstFetch(p)].ids # {}
  /\ MaxId(calls[FirstFetch(p)].ids) \in TargetMsgs(p)

\* C24: no bulk-delete call is issued with an empty set; a page none of
\* whose candidates is recent gets no bulk-delete call; and when the target
\* is the newest message of the first page cleanUntilMessage issues no delete
\* call and no further fetch, and goes to its completion message with
\* targetFound = true and deletedCount = 0.
C24_NoEmptyBulkCall ==
  \A p \in Procs :
    /\ \A i \in BulkIdx(p) : calls[i].ids # {}
    /\ \A k \in FetchIdx(p) :
         calls[k].ok /\ AgedOf(p, k) = CandidatesOf(p, k) =>
           InPage(p, k, BulkIdx(p)) = {}
    /\ TargetNewest(p) =>
         /\ DeleteIdx(p) = {} /\ Cardinality(FetchIdx(p)) = 1
         /\ inv[p].targetFound /\ inv[p].deletedCount = 0
         /\ inv[p].pc \in {"respond", "catch", "done", "timer"}
         /\ inv[p].responses # <<>> =>
              /\ inv[p].responses[1].kind = "successUntil"
              /\ inv[p].responses[1].count = 0

\* The target is the newest of several messages: nothing was deleted, zero
\* was reported and the channel is as it was.
C24_Witness ==
  \E p \in Procs :
    /\ TargetNewest(p) /\ inv[p].pc = "done" /\ inv[p].path = "slash"
    /\ Cardinality(History) >= 3 /\ History = channel
    /\ calls[FirstFetch(p)].ids # History
    /\ inv[p].responses = <<[kind |-> "successUntil", count |-> 0, ok |-> TRUE]>>
    /\ Len(calls) = 1

\* C25: a routine invokes its responseCallback exactly once, with the
\* completion message or with the error message and never with both, also
\* when the callback itself fails.
C25_CallbackExactlyOnce ==
  \A p \in Procs :
    /\ Len(inv[p].responses) <= 1
    /\ FetchIdx(p) # {} /\ inv[p].pc \in {"done", "timer"} =>
         Len(inv[p].responses) = 1

\* The messages posted after the first fetch of p was made.
PostedAfterFirstFetch(p) ==
  {m \in DOMAIN createdTimestamp : m >= calls[FirstFetch(p)].next}

\* C26: messages posted while cleanUntilMessage runs do not affect it: a
\* message created after the first fetch of the invocation is in none of its
\* pages and in none of its delete calls, so it is still in the channel, and
\* the invocation ends however many messages arrive during the run.
C26_ArrivalsDoNotAffectRun ==
  /\ [](\A p \in Procs : FetchIdx(p) # {} =>
          /\ PostedAfterFirstFetch(p) \cap Ids(EngineIdx(p)) = {}
          /\ PostedAfterFirstFetch(p) \subseteq channel
          /\ Cardinality(FetchIdx(p)) <= MaxMsgs + 1)
  /\ (inv["a"].pc = "untilFetch") ~> (inv["a"].pc = "done")

\* Messages arrived between the first and the second fetch and again before
\* the third; the routine went through its pages and ended, and the arrivals
\* are all in the channel.
C26_Witness ==
  /\ inv["a"].pc = "done" /\ Cardinality(FetchIdx("a")) = 3
  /\ Cardinality(PostedAfterFirstFetch("a")) = MaxPosts
  /\ \E j, k \in FetchIdx("a") :
       /\ j < k
       /\ calls[FirstFetch("a")].next < calls[j].next
       /\ calls[j].next < calls[k].next
  /\ Ids(DeleteIdx("a")) # {}
  /\ PostedAfterFirstFetch("a") \subseteq channel

\* The calls the handler of p made itself.
HandlerIdx(p) ==
  {i \in 1..Len(calls) : calls[i].inv = p /\ calls[i].by = "handler"}

\* C27: on the prefix path the command message is deleted before the first
\* fetch of the routine, so it is in no page and no delete call of the routine
\* and not in deletedCount; if its deletion fails the routine is not called:
\* no fetch, no delete call and no response message follow.
C27_CommandMessageDeletedFirst ==
  \A p \in Procs : inv[p].path = "prefix" =>
    /\ EngineIdx(p) # {} =>
         \E h \in HandlerIdx(p) :
           /\ calls[h].op = "delete" /\ calls[h].ok
           /\ calls[h].ids = {inv[p].cmdMsg}
           /\ \A i \in EngineIdx(p) : h < i
    /\ inv[p].cmdMsg \notin Ids(EngineIdx(p))
    /\ inv[p].deletedCount <= Cardinality(Ids(DeleteIdx(p)) \ {inv[p].cmdMsg})
    /\ (\E h \in HandlerIdx(p) : ~calls[h].ok) =>
         /\ EngineIdx(p) = {}
         /\ inv[p].pc = "done"
         /\ inv[p].responses = <<>> /\ inv[p].sent = NoId
         /\ inv[p].deletedCount = 0

\* A prefix command whose message was deleted, whose routine then fetched the
\* messages below it, deleted some and posted its confirmation.
C27_Witness ==
  /\ inv["a"].path = "prefix" /\ inv["a"].pc \in {"timer", "done"}
  /\ FetchIdx("a") # {} /\ inv["a"].deletedCount > 0
  /\ inv["a"].cmdMsg \notin channel
  /\ inv["a"].sent # NoId

\* The files that leave the program without a loaded configuration.
Unloadable == {c \in ConfigFiles : ~c.exists \/ ~c.parses}

\* C28: authorization is default-deny: when config.json is absent or cannot
\* be parsed the list of authorized users is the empty default, every slash
\* and prefix command of every user is refused as unauthorized, and no fetch
\* or delete call is ever made.
C28_DefaultDeny ==
  \A c \in Unloadable :
    /\ LoadConfig(c).authorizedUsers = {}
    /\ authorizedUsers = LoadConfig(c).authorizedUsers =>
         /\ calls = <<>>
         /\ \A p \in Procs : inv[p].pc # "idle" =>
              /\ inv[p].pc = "done"
              /\ inv[p].command # "none" =>
                   inv[p].replies = <<"unauthorized">>

\* Without a configuration file alice, with the permission in place, sent a
\* well-formed prefix clean command and was refused.
C28_Witness ==
  /\ \E c \in Unloadable : authorizedUsers = LoadConfig(c).authorizedUsers
  /\ canManage
  /\ inv["a"].path = "prefix" /\ inv["a"].command = "clean"
  /\ inv["a"].user = "alice" /\ ~BadAmount(ParseInt(inv["a"].arg))
  /\ inv["a"].replies = <<"unauthorized">>

\* The candidate list the copy of the current branch of p works on.
CopyInput(p) ==
  IF inv[p].branch = "found"
    THEN ToDelete(inv[p].messages, inv[p].targetMessageId)
  ELSE inv[p].messages

\* What the copy of branch b does.
CopyOf(b, c, twoWeeksAgo, bulkOk, failed) ==
  IF b = "clean" THEN CleanCopy(c, twoWeeksAgo, bulkOk, failed)
  ELSE IF b = "found" THEN FoundCopy(c, twoWeeksAgo, bulkOk, failed)
  ELSE PageCopy(c, twoWeeksAgo, bulkOk, failed)

\* The fetch that brought the page p is working on.
CurrentPage(p) == LastFetch(p)

\* The delete calls p made on its current page, in order, and the answers
\* the platform gave to them.
SincePage(p) ==
  LET k == CurrentPage(p)
      own == SelectSeq(SubSeq(calls, k + 1, Len(calls)),
                       LAMBDA c : c.inv = p /\ c.by = "engine")
  IN [i \in 1..Len(own) |-> Event(own[i].op, own[i].ids, own[i].ok)]
\* The answer to the bulk call among the events ev, and the messages whose
\* individual delete was rejected.
BulkAnswer(ev) ==
  \A i \in 1..Len(ev) : ev[i].ok \/ ev[i].op # "bulkDelete"
Rejected(ev) ==
  UNION {ev[i].ids : i \in {j \in 1..Len(ev) :
                              ~ev[j].ok /\ ev[j].op = "delete"}}

CallsOf(events) == SelectSeq(events, LAMBDA e : e.op # "pause")
IsPrefix(s, t) == Len(s) <= Len(t) /\ SubSeq(t, 1, Len(s)) = s

\* p has a page and is in, or past, the copy that works on it.
OnPage(p) ==
  /\ FetchIdx(p) # {} /\ calls[CurrentPage(p)].ok
  /\ inv[p].branch # "none"

\* C29: the three copies of the partition-and-delete code are one routine:
\* on the same candidates, with the same cutoff and the same answers of the
\* platform, each makes the same bulk-delete calls, individual delete calls
\* and pauses in the same order, adds the same amount to deletedCount and is
\* left the same way; and what a running command does on a page is what the
\* copy of its branch does.
C29_ThreeCopiesEquivalent ==
  \A p \in Procs : OnPage(p) =>
    LET c == CopyInput(p)
        t == inv[p].twoWeeksAgo
        made == SincePage(p)
        mine == CopyOf(inv[p].branch, c, t, BulkAnswer(made), Rejected(made))
        wanted == CallsOf(mine.events)
    IN /\ made = <<>> =>
            \A bulkOk \in BOOLEAN, failed \in SUBSET Range(c) :
              LET found == FoundCopy(c, t, bulkOk, failed)
              IN /\ CleanCopy(c, t, bulkOk, failed) = found
                 /\ PageCopy(c, t, bulkOk, failed) = found
       /\ IsPrefix(made, wanted)
       /\ inv[p].pc \notin {"bulk", "old", "pause"} =>
            /\ made = wanted
            /\ Cardinality(FetchIdx(p)) = 1 => inv[p].deletedCount = mine.added
            /\ mine.thrown => inv[p].pc \in {"catch", "respond", "done", "timer"}

\* The target-found copy made a bulk call and an individual delete followed
\* by its pause, and the other two copies would have done the same.
C29_Witness ==
  /\ OnPage("a") /\ inv["a"].branch = "found" /\ inv["a"].pc = "respond"
  /\ LET made == SincePage("a")
         mine == FoundCopy(CopyInput("a"), inv["a"].twoWeeksAgo,
                           BulkAnswer(made), Rejected(made))
     IN /\ Len(mine.events) = 3
        /\ mine.events[1].op = "bulkDelete"
        /\ mine.events[3] = PauseEvent
        /\ made = CallsOf(mine.events)
        /\ mine = CleanCopy(CopyInput("a"), inv["a"].twoWeeksAgo,
                            BulkAnswer(made), Rejected(made))

\* C30: the setup script never writes a blank bot token: setupBotToken asks
\* again until the answer is not empty once trimmed, so the value written
\* after DISCORD_TOKEN= is never empty or made of whitespace only.
C30_NeverWritesBlankToken ==
  /\ setup.written => ~Falsy(Trim(setup.env))
  /\ setup.pc = "done" => setup.written /\ setup.complaints < setup.prompts

====
